---- MODULE Spec2Model ----
\* otelchi: the tracing/metrics middleware of package otelchi, as a state machine.
\* Every request is one run of otelware.ServeHTTP on a server goroutine; the
\* goroutines share the observer pool (rrwPool) and the metric instruments.
EXTENDS Integers, Sequences, FiniteSets, TLC

\* ---------------------------------------------------------------- bounds

\* Calls (Write or WriteHeader) one handler run makes on its response writer.
MaxOps == 3
\* Longest body slice a handler passes to Write.
MaxWriteLen == 2
\* Requests served over one behaviour (all goroutines together).
MaxRequests == 2

\* ------------------------------------------------------ program constants

\* http.StatusOK, recorded by the Write hook.
StatusOK == 200
\* Status codes the modelled handlers pass to WriteHeader.
HeaderCodes == {404, 500}

\* The server goroutines that run ServeHTTP concurrently.
Goroutines == {"g1", "g2"}
\* Addresses a recordingResponseWriter can be allocated at.
RRWs == {"o1", "o2", "o3"}
NoRRW == "none"
\* An http.ResponseWriter value: the real writer of a goroutine's request
\* (real), wrapped by httpsnoop with hooks closing over the observer at address
\* rrw, or unwrapped (rrw = NoRRW).
Writer(o, g) == [rrw |-> o, real |-> g]
\* The nil http.ResponseWriter.
NilWriter == Writer(NoRRW, "nil")

\* serverName given to Middleware.
ServerName == "svc"

\* ------------------------------------------------------------ requests

\* The requests a client sends: r.Method and r.URL.Path.
Requests ==
    { [method |-> "GET",  path |-> "/users/42"],
      [method |-> "POST", path |-> "/users/42"],
      [method |-> "GET",  path |-> "/"],
      [method |-> "GET",  path |-> "/health"] }

NoRequest == [method |-> "", path |-> ""]

\* chi's pattern matching of a literal path against a route pattern. The root
\* route reports the empty pattern (chi v5.0.8, context.go:126).
PathMatches(path, pattern) ==
    \/ path = "/users/42" /\ pattern = "/users/{id}"
    \/ path = "/" /\ pattern = ""
    \/ path = "/health" /\ pattern = "/health"

\* The route table handed to WithChiRoutes.
SuppliedRoutes ==
    { [method |-> "GET", pattern |-> "/users/{id}"],
      [method |-> "GET", pattern |-> ""] }

\* The routes of the router that serves the request behind the middleware.
RouterRoutes ==
    SuppliedRoutes \cup
    { [method |-> "POST", pattern |-> "/users/{id}"],
      [method |-> "GET", pattern |-> "/health"] }

NoRoutes == {}

\* chi.Routes.Match(rctx, method, path)
Match(routes, method, path) ==
    \E rt \in routes : rt.method = method /\ PathMatches(path, rt.pattern)

\* rctx.RoutePattern() after a Match or after the router has dispatched:
\* the pattern of the matching route, "" when nothing matched.
RoutePattern(routes, method, path) ==
    IF Match(routes, method, path)
    THEN (CHOOSE rt \in routes :
              rt.method = method /\ PathMatches(path, rt.pattern)).pattern
    ELSE ""

\* The predicate handed to WithFilter: health checks are not traced.
HealthFilter(r) == r.path # "/health"

\* Mutant: the filter's verdict is ignored.
FilterRejects_Never(c, r) == FALSE

\* ow.filter != nil && !ow.filter(r)
FilterRejects(c, r) == c.filter /\ ~HealthFilter(r)

\* ------------------------------------------------------------ span names

\* Mutant: the root pattern is not normalised.
addPrefixToSpanName_NoRoot(shouldAdd, prefix, spanName) ==
    IF shouldAdd /\ Len(spanName) > 0
    THEN prefix \o " " \o spanName
    ELSE spanName

addPrefixToSpanName(shouldAdd, prefix, spanName) ==
    LET name == IF spanName = "" THEN "/" ELSE spanName
    IN  IF shouldAdd /\ Len(name) > 0
        THEN prefix \o " " \o name
        ELSE name

\* semconv.SpanStatusFromHTTPStatusCode (semconv v1.12.0): an invalid code and
\* every 4xx/5xx code is an error, everything else is left unset.
SpanStatusFromHTTPStatusCode(code) ==
    IF code < 100 \/ code >= 600 THEN "Error"
    ELSE IF code >= 400 THEN "Error"
    ELSE "Unset"

\* ---------------------------------------------------------------- state

VARIABLES
    cfg,        \* the otelware fields set from config by Middleware
    load,       \* the server's load: the requests clients send and the number
                \* of writer calls its handlers make per request
    served,     \* requests begun so far
    pc,         \* per goroutine: where its ServeHTTP call stands
    req,        \* per goroutine: the request being served
    loc,        \* per goroutine: the locals of its ServeHTTP call
    heap,       \* the recordingResponseWriter objects, by address
    rrwPool,    \* the sync.Pool: how many times each address is held by it
    inflight,   \* the in-flight up/down counter: label set -> value (not zero)
    span,       \* per goroutine: the span of the current request
    met,        \* per goroutine: the metric recordings of the current request
    hand,       \* per goroutine: the handler's calls and what reached the real writer
    outcome,    \* per goroutine: how the last ServeHTTP call left ("returned"/"panicked")
    nameIn,     \* inputs of a span-name computation
    nameOut,    \* its result
    mw          \* the Middleware(...) call: its config and what it acquired

vars == <<cfg, load, served, pc, req, loc, heap, rrwPool, inflight, span, met, hand,
          outcome, nameIn, nameOut, mw>>

\* The zero value &recordingResponseWriter{} built by rrwPool.New.
ZeroRRW == [writer |-> NilWriter, written |-> FALSE, writtenBytes |-> 0, status |-> 0]

\* Label values the instruments can see.
LabelIDs == {r.path : r \in Requests} \cup {rt.pattern : rt \in RouterRoutes}
LabelMethods == {r.method : r \in Requests}
LabelCodes == {0, StatusOK} \cup HeaderCodes

\* httpReqProperties
ReqProperties == [Service : {ServerName}, ID : LabelIDs, Method : LabelMethods, Code : LabelCodes]

NoProps == [Service |-> "", ID |-> "", Method |-> "", Code |-> 0]

\* Locals of a ServeHTTP call before it has run. defers is the stack of
\* deferred calls, last registered last.
ZeroLoc ==
    [ ctx |-> "none", spanName |-> "", routePattern |-> "", props |-> NoProps,
      rrw |-> NoRRW, writer |-> NilWriter, defers |-> <<>>, panicking |-> FALSE,
      rctxPattern |-> "" ]

\* What the tracer has seen of the request's span.
ZeroSpan ==
    [ started |-> 0, ended |-> 0, startName |-> "", name |-> "",
      startRoute |-> "", routeAttr |-> "", routeSets |-> 0, nameSets |-> 0,
      statusAttr |-> 0, statusAttrSets |-> 0, status |-> "none", statusSets |-> 0 ]

\* What the recorder has seen of the request.
ZeroMet ==
    [ up |-> 0, down |-> 0, upProps |-> NoProps, downProps |-> NoProps,
      duration |-> 0, durationProps |-> NoProps,
      size |-> 0, sizeProps |-> NoProps, sizeValue |-> 0 ]

\* A response header the middleware set on the real writer: none.
NoHeader == [key |-> "", value |-> ""]

\* The request's run: the observers it acquired and released, which writer
\* and request the downstream handler was given, the calls the handler made
\* (ops; sent is the bytes of its body writes, first the status its first call
\* implies), whether it panicked, the calls that reached the real
\* http.ResponseWriter (fwdFirst the status their first implies; transparent
\* while each call of the handler reached it once, as it was made, and got its
\* result back), and the response header ServeHTTP itself set on it.
ZeroHand ==
    [ acquired |-> 0, released |-> 0,
      calls |-> 0, via |-> "none", extracted |-> FALSE,
      ops |-> 0, sent |-> 0, first |-> 0, panicked |-> FALSE,
      fwdCalls |-> 0, fwdBytes |-> 0, fwdFirst |-> 0, transparent |-> TRUE,
      header |-> NoHeader ]

Configs ==
    [ filter : BOOLEAN, chiRoutes : BOOLEAN, reqMethodInSpanName : BOOLEAN,
      disableMeasureInflight : BOOLEAN, disableMeasureSize : BOOLEAN ]

\* ow.chiRoutes: nil unless WithChiRoutes was given.
ChiRoutes(c) == IF c.chiRoutes THEN SuppliedRoutes ELSE NoRoutes

NoName == [shouldAdd |-> FALSE, prefix |-> "", spanName |-> ""]
NoResult == [done |-> FALSE, name |-> ""]

\* ------------------------------------------------------------ Middleware

\* Handlers wrapped with the function one Middleware call returns.
MaxHandlers == 2

\* The config after the options were applied (lines 24-27): the providers
\* and the propagator are nil unless their option was given, the header key
\* is empty unless WithTraceResponseHeaderKey was given. The five fields the
\* otelware copies are cfg.
Options ==
    [ TracerProvider : {"nil", "explicit"}, MeterProvider : {"nil", "explicit"},
      Propagators : {"nil", "explicit"}, TraceResponseHeaderKey : {"", "X-Trace-Id"} ]

NoOptions ==
    [ TracerProvider |-> "nil", MeterProvider |-> "nil", Propagators |-> "nil",
      TraceResponseHeaderKey |-> "" ]

\* Middleware has not been called: opts is the config as the options left
\* it, config the one the closure captures; tracers, meters and recorders count the
\* calls of Provider.Tracer, Provider.Meter and newMetricsRecorder; tracer
\* and meter name the provider they came from; wrapped counts the otelwares
\* built.
NotBuilt ==
    [ built |-> FALSE, opts |-> NoOptions, config |-> NoOptions,
      tracers |-> 0, tracer |-> "none", meters |-> 0, meter |-> "none",
      recorders |-> 0, wrapped |-> 0, propagators |-> "none" ]

\* Lines 29-31, 37-39, 46-48: a nil provider or propagator is replaced by
\* the globally registered one.
Resolve(given) == IF given = "nil" THEN "global" ELSE given

\* Lines 24-48: the body of Middleware, up to the closure it returns.
AfterMiddleware(m, o) ==
    LET config == [o EXCEPT !.TracerProvider = Resolve(@),
                            !.MeterProvider = Resolve(@),
                            !.Propagators = Resolve(@)]
    IN  [m EXCEPT !.built = TRUE, !.opts = o, !.config = config,
                  !.tracers = @ + 1, !.tracer = config.TracerProvider,
                  !.meters = @ + 1, !.meter = config.MeterProvider,
                  !.recorders = @ + 1]

\* Mutant: every otelware gets a tracer and a meter of its own.
AfterWrap_Acquires(m) ==
    [m EXCEPT !.wrapped = @ + 1, !.propagators = m.config.Propagators,
              !.tracers = @ + 1, !.meters = @ + 1]

\* Lines 49-63: the closure builds an otelware from the tracer, the meter
\* and the recorder it closes over and from the config's propagators.
AfterWrap(m) ==
    [m EXCEPT !.wrapped = @ + 1, !.propagators = m.config.Propagators]

\* The state after Middleware(...)(handler) built the otelware c, on a server
\* whose goroutines in active serve the load l.
Constructed(c, l, active) ==
    /\ cfg = c
    /\ load = l
    /\ served = 0
    /\ pc = [g \in Goroutines |-> IF g \in active THEN "idle" ELSE "off"]
    /\ req = [g \in Goroutines |-> NoRequest]
    /\ loc = [g \in Goroutines |-> ZeroLoc]
    /\ heap = [o \in RRWs |-> ZeroRRW]
    /\ rrwPool = [o \in RRWs |-> 0]
    /\ inflight = <<>>
    /\ span = [g \in Goroutines |-> ZeroSpan]
    /\ met = [g \in Goroutines |-> ZeroMet]
    /\ hand = [g \in Goroutines |-> ZeroHand]
    /\ outcome = [g \in Goroutines |-> "none"]

\* One connection at a time: every configuration, every request.
Init ==
    /\ \E c \in Configs :
         Constructed(c, [requests |-> Requests, calls |-> MaxOps], {"g1"})
    /\ nameIn = NoName
    /\ nameOut = NoResult
    /\ mw = AfterWrap(AfterMiddleware(NotBuilt, NoOptions))

\* The configurations of the concurrent runs: a filter and a route table, with
\* in-flight measurement on or off.
ConcConfigs ==
    { c \in Configs : c.filter /\ c.chiRoutes /\ ~c.reqMethodInSpanName /\ ~c.disableMeasureSize }

\* The requests of the concurrent runs: a traced one and a filtered one.
ConcRequests == { r \in Requests : r.method = "GET" /\ r.path \in {"/users/42", "/health"} }

\* Two connections served concurrently, by handlers that make at most one
\* call on the writer.
InitConc ==
    /\ \E c \in ConcConfigs :
         Constructed(c, [requests |-> ConcRequests, calls |-> 1], Goroutines)
    /\ nameIn = NoName
    /\ nameOut = NoResult
    /\ mw = AfterWrap(AfterMiddleware(NotBuilt, NoOptions))

\* ------------------------------------------------------ metrics recorder

\* The value of an up/down counter under the label set props: zero for a
\* label set it holds nothing under.
CounterAt(counter, props) == IF props \in DOMAIN counter THEN counter[props] ELSE 0

\* metricsRecorder.RecordRequestsInflight: add delta to the up/down counter
\* under the label set props. The counter is kept as the label sets whose
\* value is not zero.
RecordRequestsInflight(counter, props, delta) ==
    LET v == CounterAt(counter, props) + delta
        rest == [q \in DOMAIN counter \ {props} |-> counter[q]]
    IN  IF v = 0 THEN rest ELSE (props :> v) @@ rest

\* ------------------------------------------------------------ ServeHTTP

Others == <<load, nameIn, nameOut, mw>>

\* A deferred call: the function and its arguments, evaluated at the defer.
Deferred(fn, props, o) == [fn |-> fn, props |-> props, rrw |-> o]

\* Lines 146-154: the route pattern known before dispatch.
PreRoutePattern(c, r) ==
    IF c.chiRoutes /\ Match(ChiRoutes(c), r.method, r.path)
    THEN RoutePattern(ChiRoutes(c), r.method, r.path)
    ELSE ""

\* Lines 146-154: the span name known before dispatch.
PreSpanName(c, r) ==
    IF c.chiRoutes /\ Match(ChiRoutes(c), r.method, r.path)
    THEN addPrefixToSpanName(c.reqMethodInSpanName, r.method,
                             RoutePattern(ChiRoutes(c), r.method, r.path))
    ELSE ""

\* Mutant: the identifier label is always the literal path.
PreProps_LiteralPath(c, r) ==
    [Service |-> ServerName, ID |-> r.path, Method |-> r.method, Code |-> 0]

\* Lines 156-163: the label set of the request's recordings.
PreProps(c, r) ==
    [ Service |-> ServerName,
      ID |-> IF PreRoutePattern(c, r) = "" THEN r.path ELSE PreRoutePattern(c, r),
      Method |-> r.method,
      Code |-> 0 ]

\* Mutant: the decrement is not deferred.
DeferInflightDec_Missing(stack, props) == stack

\* Line 167: defer ow.recorder.RecordRequestsInflight(ctx, props, -1); props is
\* copied when the defer statement runs.
DeferInflightDec(stack, props) ==
    Append(stack, Deferred("RecordRequestsInflight", props, NoRRW))

\* Mutant: span.End is not deferred.
DeferSpanEnd_Missing(stack) == stack

\* Line 177: defer span.End()
DeferSpanEnd(stack) == Append(stack, Deferred("span.End", NoProps, NoRRW))

\* Mutant: the release is not deferred, so a panic skips it.
DeferPutRRW_Missing(stack, o) == stack

\* Mutant: the observer is released twice.
DeferPutRRW_Twice(stack, o) ==
    Append(Append(stack, Deferred("putRRW", NoProps, o)), Deferred("putRRW", NoProps, o))

\* Mutant: the release is registered below the deferred calls that are
\* already there, so it runs after them.
DeferPutRRW_Last(stack, o) == <<Deferred("putRRW", NoProps, o)>> \o stack

\* Line 181: defer putRRW(rrw)
DeferPutRRW(stack, o) == Append(stack, Deferred("putRRW", NoProps, o))

\* ServeHTTP is entered with request r (lines 129-163): the filter check, and
\* for a rejected request the direct call of the handler with the original
\* writer and request; otherwise context extraction, route pre-resolution and
\* the label set.
Begin(g, r) ==
    /\ pc[g] \in {"idle", "done"}
    /\ served < MaxRequests
    /\ served' = served + 1
    /\ req' = [req EXCEPT ![g] = r]
    /\ span' = [span EXCEPT ![g] = ZeroSpan]
    /\ met' = [met EXCEPT ![g] = ZeroMet]
    /\ outcome' = [outcome EXCEPT ![g] = "none"]
    /\ IF FilterRejects(cfg, r)
       THEN /\ hand' = [hand EXCEPT ![g] =
                          [ZeroHand EXCEPT !.calls = 1, !.via = "orig"]]
            /\ loc' = [loc EXCEPT ![g] =
                         [ZeroLoc EXCEPT !.ctx = "request",
                                         !.writer = Writer(NoRRW, g)]]
            /\ pc' = [pc EXCEPT ![g] = "handler"]
       ELSE /\ hand' = [hand EXCEPT ![g] = ZeroHand]
            /\ loc' = [loc EXCEPT ![g] =
                         [ZeroLoc EXCEPT !.ctx = "extracted",
                                         !.routePattern = PreRoutePattern(cfg, r),
                                         !.spanName = PreSpanName(cfg, r),
                                         !.props = PreProps(cfg, r)]]
            /\ pc' = [pc EXCEPT ![g] = "inflight"]
    /\ UNCHANGED <<cfg, heap, rrwPool, inflight, Others>>

\* Lines 165-168: the in-flight +1, and the -1 deferred with the same props.
InflightInc(g) ==
    /\ pc[g] = "inflight"
    /\ IF ~cfg.disableMeasureInflight
       THEN /\ inflight' = RecordRequestsInflight(inflight, loc[g].props, 1)
            /\ met' = [met EXCEPT ![g].up = @ + 1, ![g].upProps = loc[g].props]
            /\ loc' = [loc EXCEPT ![g].defers = DeferInflightDec(@, loc[g].props)]
       ELSE UNCHANGED <<inflight, met, loc>>
    /\ pc' = [pc EXCEPT ![g] = "start"]
    /\ UNCHANGED <<cfg, served, req, heap, rrwPool, span, hand, outcome, Others>>

\* Lines 170-177: tracer.Start with the pre-resolved name and route, and the
\* deferred span.End.
SpanStart(g) ==
    /\ pc[g] = "start"
    /\ span' = [span EXCEPT ![g].started = @ + 1,
                            ![g].startName = loc[g].spanName,
                            ![g].name = loc[g].spanName,
                            ![g].startRoute = loc[g].routePattern]
    /\ loc' = [loc EXCEPT ![g].ctx = "span", ![g].defers = DeferSpanEnd(@)]
    /\ pc' = [pc EXCEPT ![g] = "acquire"]
    /\ UNCHANGED <<cfg, served, req, heap, rrwPool, inflight, met, hand, outcome, Others>>

\* ------------------------------------------------------- observer pool

\* Addresses some goroutine's ServeHTTP call still refers to.
Referenced == {loc[g].rrw : g \in Goroutines} \ {NoRRW}

\* Addresses holding no live object: neither pooled nor referred to.
FreeAddrs == {o \in RRWs : rrwPool[o] = 0 /\ o \notin Referenced}

\* Addresses the pool holds an object at.
Pooled == {o \in RRWs : rrwPool[o] > 0}

\* rrwPool.Get(): an object the pool holds, any of them; when it holds none,
\* a new one from rrwPool.New at a free address (which one is the allocator's
\* choice; free addresses are interchangeable, so one is taken).
PoolGettable ==
    IF Pooled # {} THEN Pooled
    ELSE IF FreeAddrs = {} THEN {}
    ELSE {CHOOSE o \in FreeAddrs : TRUE}

\* The pool after Get returned o (unchanged when o was newly built).
PoolAfterGet(o) ==
    IF rrwPool[o] > 0 THEN [rrwPool EXCEPT ![o] = @ - 1] ELSE rrwPool

\* Mutant: the fields are not reset on acquisition.
ResetRRW_Keep(rrw, writer) == [rrw EXCEPT !.writer = writer]

\* Lines 95-98 of getRRW: the reset of the fields and the new wrapped writer.
ResetRRW(rrw, writer) ==
    [rrw EXCEPT !.written = FALSE, !.writtenBytes = 0, !.status = 0,
                !.writer = writer]

\* Lines 93-120 and 180-181: rrw := getRRW(w); defer putRRW(rrw)
GetRRW(g) ==
    /\ pc[g] = "acquire"
    /\ \E o \in PoolGettable :
         /\ rrwPool' = PoolAfterGet(o)
         /\ heap' = [heap EXCEPT ![o] =
                       ResetRRW(IF rrwPool[o] > 0 THEN heap[o] ELSE ZeroRRW, Writer(o, g))]
         /\ loc' = [loc EXCEPT ![g].rrw = o, ![g].defers = DeferPutRRW(@, o)]
    /\ hand' = [hand EXCEPT ![g].acquired = @ + 1]
    /\ pc' = [pc EXCEPT ![g] = "call"]
    /\ UNCHANGED <<cfg, served, req, inflight, span, met, outcome, Others>>

\* The garbage collector empties the pool of one object (sync.Pool keeps no
\* object across collections); its memory is free again.
PoolDrop(o) ==
    /\ rrwPool[o] > 0
    /\ rrwPool' = [rrwPool EXCEPT ![o] = @ - 1]
    /\ heap' = IF rrwPool[o] = 1 /\ o \notin Referenced
               THEN [heap EXCEPT ![o] = ZeroRRW]
               ELSE heap
    /\ UNCHANGED <<cfg, served, pc, req, loc, inflight, span, met, hand, outcome, Others>>

\* Lines 184-186: the handler is called with rrw.writer and the request
\* carrying the span's context.
Dispatch(g) ==
    /\ pc[g] = "call"
    /\ loc' = [loc EXCEPT ![g].writer = heap[loc[g].rrw].writer]
    /\ hand' = [hand EXCEPT ![g].calls = @ + 1, ![g].via = "rrw",
                            ![g].extracted = (loc[g].ctx = "span")]
    /\ pc' = [pc EXCEPT ![g] = "handler"]
    /\ UNCHANGED <<cfg, served, req, heap, rrwPool, inflight, span, met, outcome, Others>>

\* ------------------------------------------------------- the handler

\* Mutant: every body write records the status again.
WriteHook_Unguarded(rrw, n) ==
    [rrw EXCEPT !.written = TRUE,
                !.writtenBytes = IF rrw.written THEN @ ELSE @ + n,
                !.status = StatusOK]

\* Lines 99-108: the Write hook's effect on the observer for a body of n bytes.
WriteHook(rrw, n) ==
    IF ~rrw.written
    THEN [rrw EXCEPT !.written = TRUE, !.writtenBytes = @ + n, !.status = StatusOK]
    ELSE rrw

\* Lines 109-117: the WriteHeader hook's effect on the observer.
WriteHeaderHook(rrw, statusCode) ==
    IF ~rrw.written
    THEN [rrw EXCEPT !.written = TRUE, !.status = statusCode]
    ELSE rrw

\* The status the response carries once the handler's first call was call:
\* a body write implies 200, a status write its code.
ImpliedStatus(call) == IF call[1] = "Write" THEN StatusOK ELSE call[2]

\* The bytes of a call's body: none for a status write.
BodyLen(call) == IF call[1] = "Write" THEN call[2] ELSE 0

RECURSIVE BodyLens(_)
BodyLens(calls) == IF calls = <<>> THEN 0 ELSE BodyLen(Head(calls)) + BodyLens(Tail(calls))

\* What the real http.ResponseWriter returns for a call: the bytes it took
\* of a body, nothing for a status.
RealResult(call) == BodyLen(call)

\* Mutant: once the observer has recorded a call, later calls are swallowed.
Forwarded_FirstOnly(w, call) ==
    IF w.rrw # NoRRW /\ heap[w.rrw].written THEN <<>> ELSE <<call>>

\* Lines 106 and 116: the calls the real writer receives for one call on
\* writer w. Each hook calls next once with the argument it was given,
\* whatever rrw.written says; an unwrapped writer is the real one.
Forwarded(w, call) == <<call>>

\* Line 106: what the handler gets back, `return next(b)`: the results of
\* the real writer for the calls it received.
Returned(w, call) == [i \in DOMAIN Forwarded(w, call) |-> RealResult(Forwarded(w, call)[i])]

\* The handler's call goes through writer w: the hook of the observer the
\* writer closes over runs (none for an unwrapped writer), then next(...)
\* hands the call to the real writer.
HandlerCall(g, call) ==
    LET w == loc[g].writer
        n == BodyLen(call)
        fwd == Forwarded(w, call)
    IN  /\ pc[g] = "handler"
        /\ hand[g].ops < load.calls
        /\ heap' = IF w.rrw = NoRRW THEN heap
                   ELSE IF call[1] = "Write"
                        THEN [heap EXCEPT ![w.rrw] = WriteHook(@, call[2])]
                        ELSE [heap EXCEPT ![w.rrw] = WriteHeaderHook(@, call[2])]
        /\ hand' = [hand EXCEPT ![g].ops = @ + 1,
                                ![g].sent = @ + n,
                                ![g].first = IF hand[g].ops = 0 THEN ImpliedStatus(call) ELSE @,
                                ![g].transparent =
                                    @ /\ fwd = <<call>> /\ Returned(w, call) = <<RealResult(call)>>,
                                ![w.real].fwdCalls = @ + Len(fwd),
                                ![w.real].fwdBytes = @ + BodyLens(fwd),
                                ![w.real].fwdFirst =
                                    IF @ = 0 /\ fwd # <<>> THEN ImpliedStatus(Head(fwd)) ELSE @]
        /\ UNCHANGED <<cfg, served, pc, req, loc, rrwPool, inflight, span, met, outcome, Others>>

\* The handler calls Write with a body of n bytes.
HandlerWrite(g, n) == HandlerCall(g, <<"Write", n>>)

\* The handler calls WriteHeader(statusCode).
HandlerWriteHeader(g, statusCode) == HandlerCall(g, <<"WriteHeader", statusCode>>)

\* The handler returns. Behind the filter (line 133) ServeHTTP returns with
\* it; otherwise the router has filled the request's routing context.
HandlerReturn(g) ==
    /\ pc[g] = "handler"
    /\ IF hand[g].via = "orig"
       THEN /\ pc' = [pc EXCEPT ![g] = "done"]
            /\ outcome' = [outcome EXCEPT ![g] = "returned"]
            /\ loc' = [loc EXCEPT ![g] = ZeroLoc]
       ELSE /\ pc' = [pc EXCEPT ![g] = "record"]
            /\ loc' = [loc EXCEPT ![g].rctxPattern =
                         RoutePattern(RouterRoutes, req[g].method, req[g].path)]
            /\ UNCHANGED outcome
    /\ UNCHANGED <<cfg, served, req, heap, rrwPool, inflight, span, met, hand, Others>>

\* Mutant: the panic is recovered and ServeHTTP goes on after the dispatch.
Unwind_Recovered == "record"

\* Lines 184-186: ServeHTTP does not recover, so a panic of the handler
\* leaves the rest of the body out and the deferred calls run next.
Unwind == "defers"

\* The handler panics: the rest of ServeHTTP is skipped and its deferred
\* calls run (none behind the filter).
HandlerPanic(g) ==
    /\ pc[g] = "handler"
    /\ hand' = [hand EXCEPT ![g].panicked = TRUE]
    /\ IF hand[g].via = "orig"
       THEN /\ pc' = [pc EXCEPT ![g] = "done"]
            /\ outcome' = [outcome EXCEPT ![g] = "panicked"]
            /\ loc' = [loc EXCEPT ![g] = ZeroLoc]
       ELSE /\ pc' = [pc EXCEPT ![g] = Unwind]
            /\ loc' = [loc EXCEPT ![g].panicking = TRUE]
            /\ UNCHANGED outcome
    /\ UNCHANGED <<cfg, served, req, heap, rrwPool, inflight, span, met, Others>>

\* ------------------------------------------------- after the handler

\* Mutant: the size is recorded whatever the toggle says.
RecordDurationAndSize_SizeAlways(m, props, bytes) ==
    [m EXCEPT !.duration = @ + 1, !.durationProps = props,
              !.size = @ + 1, !.sizeProps = props, !.sizeValue = bytes]

\* Lines 189-195: RecordRequestDuration always, RecordResponseSize unless
\* size measurement is disabled.
RecordDurationAndSize(m, props, bytes) ==
    IF ~cfg.disableMeasureSize
    THEN [m EXCEPT !.duration = @ + 1, !.durationProps = props,
                   !.size = @ + 1, !.sizeProps = props, !.sizeValue = bytes]
    ELSE [m EXCEPT !.duration = @ + 1, !.durationProps = props]

\* Lines 188-195: the status label, the duration and the size recordings.
Record(g) ==
    LET rrw == heap[loc[g].rrw]
        props == [loc[g].props EXCEPT !.Code = rrw.status]
    IN  /\ pc[g] = "record"
        /\ loc' = [loc EXCEPT ![g].props = props]
        /\ met' = [met EXCEPT ![g] = RecordDurationAndSize(@, props, rrw.writtenBytes)]
        /\ pc' = [pc EXCEPT ![g] = "finalize"]
        /\ UNCHANGED <<cfg, served, req, heap, rrwPool, inflight, span, hand, outcome, Others>>

\* Mutant: the route attribute is set and the name is left as it was.
SetRouteAndName_NoName(sp, pattern, name) ==
    [sp EXCEPT !.routeAttr = pattern, !.routeSets = @ + 1]

\* Lines 197-204: the span after the route and the name were set from the
\* routing context, when the pattern was not known before dispatch.
SetRouteAndName(sp, pattern, name) ==
    [sp EXCEPT !.routeAttr = pattern, !.routeSets = @ + 1,
               !.name = name, !.nameSets = @ + 1]

\* Mutant: the status attribute is set whatever the status is.
SetStatus_AttrAlways(sp, status) ==
    [sp EXCEPT !.statusAttr = status, !.statusAttrSets = @ + 1,
               !.status = SpanStatusFromHTTPStatusCode(status),
               !.statusSets = @ + 1]

\* Lines 206-213: the span after the status attribute (for a status above 0)
\* and the span status were set.
SetStatus(sp, status) ==
    LET withAttr == IF status > 0
                    THEN [sp EXCEPT !.statusAttr = status, !.statusAttrSets = @ + 1]
                    ELSE sp
    IN  [withAttr EXCEPT !.status = SpanStatusFromHTTPStatusCode(status),
                         !.statusSets = @ + 1]

\* Lines 197-213: the span is finalized.
Finalize(g) ==
    LET rrw == heap[loc[g].rrw]
        late == Len(loc[g].routePattern) = 0
        pattern == IF late THEN loc[g].rctxPattern ELSE loc[g].routePattern
        name == IF late
                THEN addPrefixToSpanName(cfg.reqMethodInSpanName, req[g].method, pattern)
                ELSE loc[g].spanName
    IN  /\ pc[g] = "finalize"
        /\ loc' = [loc EXCEPT ![g].routePattern = pattern, ![g].spanName = name]
        /\ span' = [span EXCEPT ![g] =
                      SetStatus(IF late THEN SetRouteAndName(@, pattern, name) ELSE @,
                                rrw.status)]
        /\ pc' = [pc EXCEPT ![g] = "defers"]
        /\ UNCHANGED <<cfg, served, req, heap, rrwPool, inflight, met, hand, outcome, Others>>

\* ------------------------------------------------------ deferred calls

\* The deferred call that runs next: the last one registered.
TopDeferred(g) == loc[g].defers[Len(loc[g].defers)]

Pop(stack) == SubSeq(stack, 1, Len(stack) - 1)

DeferredIs(g, fn) ==
    /\ pc[g] = "defers"
    /\ loc[g].defers # <<>>
    /\ TopDeferred(g).fn = fn

\* Lines 122-125, deferred at line 181: putRRW(rrw)
PutRRW(g) ==
    /\ DeferredIs(g, "putRRW")
    /\ heap' = [heap EXCEPT ![TopDeferred(g).rrw].writer = NilWriter]
    /\ rrwPool' = [rrwPool EXCEPT ![TopDeferred(g).rrw] = @ + 1]
    /\ hand' = [hand EXCEPT ![g].released = @ + 1]
    /\ loc' = [loc EXCEPT ![g].defers = Pop(@)]
    /\ UNCHANGED <<cfg, served, pc, req, inflight, span, met, outcome, Others>>

\* Deferred at line 177: span.End()
SpanEnd(g) ==
    /\ DeferredIs(g, "span.End")
    /\ span' = [span EXCEPT ![g].ended = @ + 1]
    /\ loc' = [loc EXCEPT ![g].defers = Pop(@)]
    /\ UNCHANGED <<cfg, served, pc, req, heap, rrwPool, inflight, met, hand, outcome, Others>>

\* Mutant: the deferred call reads props when it runs.
DeferredProps_WhenRun(g) == loc[g].props

\* Line 167: the arguments of a deferred call are evaluated by the defer
\* statement; props is a struct passed by value.
DeferredProps(g) == TopDeferred(g).props

\* Deferred at line 167: RecordRequestsInflight(ctx, props, -1) with the
\* props of the defer statement.
InflightDec(g) ==
    /\ DeferredIs(g, "RecordRequestsInflight")
    /\ inflight' = RecordRequestsInflight(inflight, DeferredProps(g), -1)
    /\ met' = [met EXCEPT ![g].down = @ + 1, ![g].downProps = DeferredProps(g)]
    /\ loc' = [loc EXCEPT ![g].defers = Pop(@)]
    /\ UNCHANGED <<cfg, served, pc, req, heap, rrwPool, span, hand, outcome, Others>>

\* Line 214: ServeHTTP leaves once its deferred calls have run, by returning
\* or, after a handler panic, with the panic still unwinding to the caller.
Exit(g) ==
    /\ pc[g] = "defers"
    /\ loc[g].defers = <<>>
    /\ outcome' = [outcome EXCEPT ![g] = IF loc[g].panicking THEN "panicked" ELSE "returned"]
    /\ loc' = [loc EXCEPT ![g] = ZeroLoc]
    /\ pc' = [pc EXCEPT ![g] = "done"]
    /\ UNCHANGED <<cfg, served, req, heap, rrwPool, inflight, span, met, hand, Others>>

\* ------------------------------------------------------ specification

Next ==
    \/ \E g \in Goroutines, r \in load.requests : Begin(g, r)
    \/ \E g \in Goroutines : InflightInc(g)
    \/ \E g \in Goroutines : SpanStart(g)
    \/ \E g \in Goroutines : GetRRW(g)
    \/ \E o \in RRWs : PoolDrop(o)
    \/ \E g \in Goroutines : Dispatch(g)
    \/ \E g \in Goroutines, n \in 0..MaxWriteLen : HandlerWrite(g, n)
    \/ \E g \in Goroutines, c \in HeaderCodes : HandlerWriteHeader(g, c)
    \/ \E g \in Goroutines : HandlerReturn(g)
    \/ \E g \in Goroutines : HandlerPanic(g)
    \/ \E g \in Goroutines : Record(g)
    \/ \E g \in Goroutines : Finalize(g)
    \/ \E g \in Goroutines : PutRRW(g)
    \/ \E g \in Goroutines : SpanEnd(g)
    \/ \E g \in Goroutines : InflightDec(g)
    \/ \E g \in Goroutines : Exit(g)

Spec == Init /\ [][Next]_vars

SpecConc == InitConc /\ [][Next]_vars

\* ------------------------------------------- span names on their own

NameMethods == {"GET", "POST", "PUT", "DELETE", "PATCH", "HEAD", ""}
NamePatterns == {"", "/", "/users/{id}", "/health", "/*"}
NameInputs == [shouldAdd : BOOLEAN, prefix : NameMethods, spanName : NamePatterns]

DefaultConfig ==
    [ filter |-> FALSE, chiRoutes |-> FALSE, reqMethodInSpanName |-> FALSE,
      disableMeasureInflight |-> FALSE, disableMeasureSize |-> FALSE ]

\* A call of addPrefixToSpanName is pending with any arguments.
InitSpanName ==
    /\ Constructed(DefaultConfig, [requests |-> {}, calls |-> 0], {})
    /\ nameIn \in NameInputs
    /\ nameOut = NoResult
    /\ mw = AfterWrap(AfterMiddleware(NotBuilt, NoOptions))

\* addPrefixToSpanName(shouldAdd, prefix, spanName) returns.
ComputeSpanName ==
    /\ ~nameOut.done
    /\ nameOut' = [done |-> TRUE,
                   name |-> addPrefixToSpanName(nameIn.shouldAdd, nameIn.prefix, nameIn.spanName)]
    /\ UNCHANGED <<cfg, load, served, pc, req, loc, heap, rrwPool, inflight, span, met,
                   hand, outcome, nameIn, mw>>

NextSpanName == ComputeSpanName

SpecSpanName == InitSpanName /\ [][NextSpanName]_vars

\* ------------------------------------------- Middleware on its own

\* The configurations of the construction runs: with and without a filter.
MiddlewareConfigs ==
    { c \in Configs : ~c.chiRoutes /\ ~c.reqMethodInSpanName
                      /\ ~c.disableMeasureInflight /\ ~c.disableMeasureSize }

\* Middleware has not been called yet; no handler is wrapped, no request is
\* served.
InitMiddleware ==
    /\ \E c \in MiddlewareConfigs :
         Constructed(c, [requests |-> ConcRequests, calls |-> 1], {})
    /\ nameIn = NoName
    /\ nameOut = NoResult
    /\ mw = NotBuilt

\* Lines 23-48: Middleware(serverName, opts...) is called with options o.
Middleware(o) ==
    /\ ~mw.built
    /\ mw' = AfterMiddleware(mw, o)
    /\ UNCHANGED <<cfg, load, served, pc, req, loc, heap, rrwPool, inflight, span, met,
                   hand, outcome, nameIn, nameOut>>

\* Lines 49-63: the returned function wraps a handler; the server starts
\* serving with the first one.
WrapHandler ==
    /\ mw.built
    /\ mw.wrapped < MaxHandlers
    /\ mw' = AfterWrap(mw)
    /\ pc' = [pc EXCEPT !["g1"] = IF @ = "off" THEN "idle" ELSE @]
    /\ UNCHANGED <<cfg, load, served, req, loc, heap, rrwPool, inflight, span, met,
                   hand, outcome, nameIn, nameOut>>

NextMiddleware ==
    \/ \E o \in Options : Middleware(o)
    \/ WrapHandler
    \/ Next

SpecMiddleware == InitMiddleware /\ [][NextMiddleware]_vars

\* ------------------------------------------------------------- claims

\* The request g serves went past the filter (no filter, or it said true).
Accepted(g) == req[g] # NoRequest /\ ~(cfg.filter /\ req[g].path = "/health")

\* g's ServeHTTP call holds an observer it has not released yet.
Holding(g) == loc[g].rrw # NoRRW /\ hand[g].released = 0

\* The in-flight counter summed over the label sets in S.
RECURSIVE InflightSum(_)
InflightSum(S) ==
    IF S = {} THEN 0
    ELSE LET p == CHOOSE q \in S : TRUE
         IN  inflight[p] + InflightSum(S \ {p})

\* The counter summed over all label sets (those at zero add nothing).
InflightTotal == InflightSum(DOMAIN inflight)

\* C1: the bytesWritten value ServeHTTP reads after the handler returned, and
\* the value it records on the size histogram, equal the sum of the lengths
\* of all body writes of the request.
C1_BytesWrittenIsSumOfWrites ==
    \A g \in Goroutines :
        /\ pc[g] = "record" => heap[loc[g].rrw].writtenBytes = hand[g].sent
        /\ met[g].size = 1 => met[g].sizeValue = hand[g].sent

\* C2: while a request holds its observer, the written flag is set exactly
\* when the handler has made a call, and the recorded status is the one the
\* first call implied (200 for a body write, s for WriteHeader(s)), whatever
\* calls followed.
C2_StatusFixedByFirstCall ==
    \A g \in Goroutines :
        (pc[g] \in {"handler", "record", "finalize"} /\ hand[g].via = "rrw") =>
            /\ heap[loc[g].rrw].written <=> hand[g].ops > 0
            /\ heap[loc[g].rrw].status = hand[g].first

\* C2 witness: a status write came first, body writes and further calls
\* followed, and the recorded status is still the first one.
C2_Witness ==
    \E g \in Goroutines :
        /\ pc[g] = "record"
        /\ hand[g].first = 404
        /\ hand[g].ops = 3
        /\ hand[g].sent > 0
        /\ heap[loc[g].rrw].status = 404

\* Goroutines whose request has recorded its +1 and not yet its -1.
BetweenIncAndDec == {g \in Goroutines : met[g].up > met[g].down}

\* C3: under any interleaving of concurrent requests, returning or panicking,
\* the in-flight counter is never negative (under any label set), equals the
\* number of requests between their increment and their decrement, and is
\* back at its initial value, zero, whenever no request is being served.
C3_InflightCountsRequestsInFlight ==
    /\ \A p \in ReqProperties : CounterAt(inflight, p) >= 0
    /\ InflightTotal = Cardinality(BetweenIncAndDec)
    /\ (\A g \in Goroutines : pc[g] \in {"idle", "done", "off"}) => InflightTotal = 0

\* C3 witness: two requests are in flight at once, one of them unwinding
\* from a handler panic.
C3_Witness ==
    /\ ~cfg.disableMeasureInflight
    /\ InflightTotal = 2
    /\ \E g \in Goroutines : pc[g] = "defers" /\ loc[g].panicking

\* C4: a request that went past the filter has at most one span start and
\* never more ends than starts; once the span was started it stays started,
\* and when ServeHTTP has left, by return or by panic, the span was started
\* once and ended once.
C4_OneSpanStartedAndEnded ==
    \A g \in Goroutines :
        Accepted(g) =>
            /\ span[g].started <= 1
            /\ span[g].ended <= span[g].started
            /\ pc[g] \in {"acquire", "call", "handler", "record", "finalize", "defers"}
                   => span[g].started = 1
            /\ pc[g] = "done" => span[g].started = 1 /\ span[g].ended = 1

\* C4 witness: ServeHTTP has left on a handler panic with its span started
\* once and ended once.
C4_Witness ==
    \E g \in Goroutines :
        /\ Accepted(g)
        /\ pc[g] = "done"
        /\ hand[g].panicked
        /\ span[g].started = 1
        /\ span[g].ended = 1

\* The configured filter returns false for the request g serves.
Rejected(g) == req[g] # NoRequest /\ cfg.filter /\ req[g].path = "/health"

\* C5: a request the filter rejects never has a span, a metric recording, an
\* observer or an extracted context, and the handler is called exactly once,
\* with the original writer and the original request; every call the handler
\* makes reaches the real writer.
C5_RejectedRequestBypasses ==
    \A g \in Goroutines :
        Rejected(g) =>
            /\ span[g] = ZeroSpan
            /\ met[g] = ZeroMet
            /\ hand[g].acquired = 0
            /\ loc[g].rrw = NoRRW
            /\ loc[g].defers = <<>>
            /\ loc[g].ctx # "extracted" /\ loc[g].ctx # "span"
            /\ hand[g].calls = 1
            /\ hand[g].via = "orig"
            /\ ~hand[g].extracted
            /\ hand[g].fwdCalls = hand[g].ops
            /\ pc[g] \in {"handler", "done"}

\* C5 witness: a rejected request was served to its end, its handler having
\* written a response.
C5_Witness ==
    \E g \in Goroutines :
        /\ Rejected(g)
        /\ pc[g] = "done"
        /\ outcome[g] = "returned"
        /\ hand[g].ops > 0

\* C6: when the handler of a request that went past the filter panics,
\* ServeHTTP leaves with the panic (it is not recovered), and by then the span
\* was ended once, the observer was acquired once and released once, and with
\* in-flight measurement enabled the -1 was recorded once; nothing after the
\* handler call ran.
C6_PanicPropagatesAfterCleanup ==
    \A g \in Goroutines :
        (Accepted(g) /\ hand[g].panicked) =>
            /\ outcome[g] # "returned"
            /\ met[g].duration = 0 /\ span[g].statusSets = 0
            /\ span[g].ended <= 1 /\ hand[g].released <= 1 /\ met[g].down <= 1
            /\ pc[g] = "done" =>
                   /\ outcome[g] = "panicked"
                   /\ span[g].ended = 1
                   /\ hand[g].acquired = 1
                   /\ hand[g].released = 1
                   /\ ~cfg.disableMeasureInflight => met[g].up = 1 /\ met[g].down = 1

\* C6 witness: with in-flight measurement enabled, a handler panic has left
\* ServeHTTP after the three cleanups.
C6_Witness ==
    \E g \in Goroutines :
        /\ Accepted(g)
        /\ ~cfg.disableMeasureInflight
        /\ hand[g].panicked
        /\ hand[g].ops > 0
        /\ pc[g] = "done"
        /\ outcome[g] = "panicked"
        /\ hand[g].released = 1

\* C7: no observer is held by two requests at once, none is in the pool
\* while a request holds it, the pool holds no observer twice, and every
\* request releases the observer it acquired exactly once.
C7_ObserverHasOneOwner ==
    /\ \A g, h \in Goroutines :
           (g # h /\ Holding(g) /\ Holding(h)) => loc[g].rrw # loc[h].rrw
    /\ \A g \in Goroutines : Holding(g) => rrwPool[loc[g].rrw] = 0
    /\ \A o \in RRWs : rrwPool[o] <= 1
    /\ \A g \in Goroutines :
           /\ hand[g].released <= hand[g].acquired
           /\ hand[g].acquired <= 1
           /\ (pc[g] = "done" /\ Accepted(g)) => hand[g].released = 1

\* C7 witness: two requests are inside their handlers at once, each holding
\* an observer, and the two observers differ.
C7_Witness ==
    \E g, h \in Goroutines :
        /\ g # h
        /\ pc[g] = "handler" /\ Holding(g)
        /\ pc[h] = "handler" /\ Holding(h)
        /\ loc[g].rrw # loc[h].rrw

\* The supplied route table matches g's request with a pattern that is not
\* empty.
TableMatches(g) ==
    /\ cfg.chiRoutes
    /\ \E rt \in SuppliedRoutes :
           /\ rt.method = req[g].method
           /\ PathMatches(req[g].path, rt.pattern)
           /\ rt.pattern # ""

\* The pattern of that match.
TablePattern(g) ==
    (CHOOSE rt \in SuppliedRoutes :
         rt.method = req[g].method /\ PathMatches(req[g].path, rt.pattern)).pattern

\* No route table was supplied, or the supplied one does not match g's request.
NoTableMatch(g) ==
    \/ ~cfg.chiRoutes
    \/ ~\E rt \in SuppliedRoutes :
           rt.method = req[g].method /\ PathMatches(req[g].path, rt.pattern)

\* "METHOD name" with the method in the span name, name without.
Named(g, name) ==
    IF cfg.reqMethodInSpanName THEN req[g].method \o " " \o name ELSE name

\* Every metric recording g's request has made carries the identifier id.
RecordedUnder(g, id) ==
    /\ met[g].up > 0 => met[g].upProps.ID = id
    /\ met[g].down > 0 => met[g].downProps.ID = id
    /\ met[g].duration > 0 => met[g].durationProps.ID = id
    /\ met[g].size > 0 => met[g].sizeProps.ID = id

\* C8: when the supplied route table matches the request with a non-empty
\* pattern P, the span is started with the name P ("METHOD P" with the method
\* in the span name) and the route P, every metric recording of the request
\* is labelled with P, and neither the span's name nor its route is set again
\* after dispatch.
C8_MatchedPatternNamesSpanAndMetrics ==
    \A g \in Goroutines :
        (Accepted(g) /\ TableMatches(g)) =>
            /\ loc[g].props.ID \in {"", TablePattern(g)}
            /\ RecordedUnder(g, TablePattern(g))
            /\ span[g].started = 1 =>
                   /\ span[g].startName = Named(g, TablePattern(g))
                   /\ span[g].startRoute = TablePattern(g)
                   /\ span[g].name = span[g].startName
            /\ span[g].nameSets = 0
            /\ span[g].routeSets = 0
            /\ (pc[g] = "done" /\ ~hand[g].panicked) => met[g].duration = 1

\* C8 witness: GET /users/42 was served to its end against the table's
\* /users/{id}, with the method in the span name.
C8_Witness ==
    \E g \in Goroutines :
        /\ Accepted(g) /\ TableMatches(g)
        /\ cfg.reqMethodInSpanName
        /\ pc[g] = "done"
        /\ outcome[g] = "returned"
        /\ req[g].path = "/users/42"
        /\ span[g].name = "GET /users/{id}"
        /\ met[g].durationProps.ID = "/users/{id}"

\* The pattern the router behind the middleware resolves g's request to.
RouterPattern(g) ==
    IF \E rt \in RouterRoutes :
           rt.method = req[g].method /\ PathMatches(req[g].path, rt.pattern)
    THEN (CHOOSE rt \in RouterRoutes :
              rt.method = req[g].method /\ PathMatches(req[g].path, rt.pattern)).pattern
    ELSE ""

\* C9: with no route table, or one that does not match the request, every
\* metric recording is labelled with the literal path, the span is started
\* with an empty name, and once a normally returning request is finalized the
\* span's route attribute is the pattern of the router's routing context and
\* its name is computed from that pattern (the empty root pattern read as "/").
C9_UnmatchedUsesPathThenRouterPattern ==
    \A g \in Goroutines :
        (Accepted(g) /\ NoTableMatch(g)) =>
            /\ loc[g].props.ID \in {"", req[g].path}
            /\ RecordedUnder(g, req[g].path)
            /\ span[g].started = 1 => span[g].startName = "" /\ span[g].startRoute = ""
            /\ (pc[g] \in {"inflight", "start", "acquire", "call", "handler", "record", "finalize"}
                  \/ hand[g].panicked)
                   => span[g].routeSets = 0 /\ span[g].nameSets = 0
            /\ ((pc[g] = "defers" \/ pc[g] = "done") /\ ~hand[g].panicked) =>
                   /\ span[g].routeSets = 1
                   /\ span[g].nameSets = 1
                   /\ span[g].routeAttr = RouterPattern(g)
                   /\ span[g].name =
                          Named(g, IF RouterPattern(g) = "" THEN "/" ELSE RouterPattern(g))

\* C9 witness: without a route table, POST /users/42 was served to its end;
\* its recordings carry the literal path and its span the router's pattern.
C9_Witness ==
    \E g \in Goroutines :
        /\ Accepted(g) /\ ~cfg.chiRoutes
        /\ pc[g] = "done"
        /\ outcome[g] = "returned"
        /\ met[g].durationProps.ID = "/users/42"
        /\ span[g].startName = ""
        /\ span[g].routeAttr = "/users/{id}"
        /\ span[g].name = "POST /users/{id}"

\* C10: addPrefixToSpanName never returns the empty name: the empty pattern
\* gives "/" or "METHOD /", a pattern P that is not empty gives P or
\* "METHOD P".
C10_SpanNameNeverEmpty ==
    nameOut.done =>
        /\ nameOut.name # ""
        /\ nameOut.name =
               LET base == IF nameIn.spanName = "" THEN "/" ELSE nameIn.spanName
               IN  IF nameIn.shouldAdd THEN nameIn.prefix \o " " \o base ELSE base

\* C10 witness: the root route's empty pattern was named, with and without
\* the method.
C10_Witness ==
    /\ nameOut.done
    /\ nameIn.spanName = ""
    /\ nameOut.name \in {"/", "GET /"}

\* C11: the toggles are pure no-ops. With size measurement disabled no size
\* is ever recorded; with in-flight measurement disabled neither the +1 nor
\* the -1 is recorded and the counter stays empty; no configuration switches
\* the duration off, and an accepted request that returned normally has
\* exactly one duration recording and, with size measurement enabled,
\* exactly one size recording.
C11_TogglesSkipRecordings ==
    \A g \in Goroutines :
        Accepted(g) =>
            /\ cfg.disableMeasureSize => met[g].size = 0
            /\ cfg.disableMeasureInflight =>
                   met[g].up = 0 /\ met[g].down = 0 /\ inflight = << >>
            /\ met[g].duration <= 1 /\ met[g].size <= 1
            /\ (pc[g] = "done" /\ outcome[g] = "returned") =>
                   /\ met[g].duration = 1
                   /\ ~cfg.disableMeasureSize => met[g].size = 1
                   /\ ~cfg.disableMeasureInflight => met[g].up = 1 /\ met[g].down = 1

\* Both toggles disabled: a request whose handler wrote a body returned with
\* its duration recorded and nothing else.
C11_Witness ==
    \E g \in Goroutines :
        /\ Accepted(g) /\ pc[g] = "done" /\ outcome[g] = "returned"
        /\ cfg.disableMeasureSize /\ cfg.disableMeasureInflight
        /\ hand[g].sent > 0
        /\ met[g].duration = 1 /\ met[g].size = 0 /\ met[g].up = 0 /\ met[g].down = 0

\* The trace identifier of the span tracer.Start (line 170) gave goroutine g.
TraceID(g) == "trace-" \o g

\* C12: when WithTraceResponseHeaderKey configured a header key, the response
\* of every accepted request carries that header with the trace identifier
\* of the request's span; when no key is configured the middleware sets no
\* header.
C12_TraceIdInResponseHeader ==
    \A g \in Goroutines :
        (Accepted(g) /\ pc[g] = "done" /\ outcome[g] = "returned") =>
            IF mw.config.TraceResponseHeaderKey # ""
            THEN hand[g].header = [key |-> mw.config.TraceResponseHeaderKey, value |-> TraceID(g)]
            ELSE hand[g].header = NoHeader

\* C13: once Middleware has run, exactly one tracer and one meter have been
\* obtained and one recorder built, however many handlers were wrapped and
\* requests served, and none before; the tracer, the meter and the
\* propagators come from the explicit option when it was given and from
\* the globally registered one when it was not.
C13_OneTracerOneMeterResolved ==
    /\ ~mw.built => mw.tracers = 0 /\ mw.meters = 0 /\ mw.recorders = 0 /\ mw.wrapped = 0
    /\ mw.built =>
          /\ mw.tracers = 1 /\ mw.meters = 1 /\ mw.recorders = 1
          /\ mw.tracer = (IF mw.opts.TracerProvider = "nil" THEN "global" ELSE "explicit")
          /\ mw.meter = (IF mw.opts.MeterProvider = "nil" THEN "global" ELSE "explicit")
          /\ mw.wrapped > 0 =>
                mw.propagators = (IF mw.opts.Propagators = "nil" THEN "global" ELSE "explicit")
    /\ served > 0 => mw.built /\ mw.wrapped > 0

\* Two handlers were wrapped and two requests served by a middleware built
\* with an explicit tracer provider and no meter provider or propagator.
C13_Witness ==
    /\ mw.built /\ mw.wrapped = MaxHandlers /\ served = MaxRequests
    /\ mw.tracers = 1 /\ mw.meters = 1 /\ mw.recorders = 1
    /\ mw.opts.TracerProvider = "explicit" /\ mw.tracer = "explicit"
    /\ mw.opts.MeterProvider = "nil" /\ mw.meter = "global"
    /\ mw.opts.Propagators = "nil" /\ mw.propagators = "global"
    /\ \E g \in Goroutines : Accepted(g) /\ span[g].ended = 1

\* C14: the events of an accepted request whose handler does not panic occur
\* in the order of the control flow: an event has happened only if every
\* earlier one has. Context extraction and the label set (route
\* pre-resolution) precede the in-flight +1, the +1 precedes the span start,
\* the span start the acquisition, the acquisition the dispatch, the dispatch
\* every call of the handler; duration and size are recorded and the span is
\* finalized after the handler returned; the observer is released only after
\* the finalization, the last read of its status and byte count; and the -1
\* comes after the release.
C14_EventsInControlFlowOrder ==
    \A g \in Goroutines :
        (Accepted(g) /\ ~hand[g].panicked) =>
            /\ pc[g] \in {"inflight", "start", "acquire", "call", "handler", "record", "finalize"}
                  => loc[g].ctx \in {"extracted", "span"} /\ loc[g].props.ID # ""
            /\ met[g].up = 1 => met[g].upProps.ID # ""
            /\ span[g].started = 1 => (~cfg.disableMeasureInflight => met[g].up = 1)
            /\ hand[g].acquired = 1 => span[g].started = 1
            /\ hand[g].calls = 1 => hand[g].acquired = 1 /\ hand[g].extracted
            /\ hand[g].ops > 0 => hand[g].calls = 1
            /\ pc[g] = "handler" =>
                  /\ met[g].duration = 0 /\ met[g].size = 0 /\ span[g].statusSets = 0
                  /\ hand[g].released = 0 /\ met[g].down = 0
            /\ met[g].duration = 1 => hand[g].calls = 1 /\ pc[g] # "handler"
            /\ met[g].size = 1 => met[g].duration = 1
            /\ span[g].statusSets = 1 =>
                  met[g].duration = 1 /\ (~cfg.disableMeasureSize => met[g].size = 1)
            /\ hand[g].released = 1 => span[g].statusSets = 1
            /\ met[g].down = 1 => hand[g].released = 1
            /\ (pc[g] = "done" /\ outcome[g] = "returned") =>
                  /\ ~cfg.disableMeasureInflight => met[g].up = 1 /\ met[g].down = 1
                  /\ span[g].started = 1 /\ hand[g].acquired = 1 /\ hand[g].calls = 1
                  /\ met[g].duration = 1 /\ span[g].statusSets = 1 /\ hand[g].released = 1

\* With every measurement enabled a request went through all the events, its
\* handler having written, and returned.
C14_Witness ==
    \E g \in Goroutines :
        /\ Accepted(g) /\ pc[g] = "done" /\ outcome[g] = "returned"
        /\ ~cfg.disableMeasureInflight /\ ~cfg.disableMeasureSize
        /\ hand[g].ops > 0
        /\ met[g].up = 1 /\ span[g].started = 1 /\ hand[g].acquired = 1 /\ hand[g].calls = 1
        /\ met[g].duration = 1 /\ met[g].size = 1 /\ span[g].statusSets = 1
        /\ hand[g].released = 1 /\ met[g].down = 1

\* C15: an acquisition hands out an observer with written = false,
\* writtenBytes = 0, status = 0 and the writer wrapped around the current
\* request's writer, whatever the previous request left in it; from then on
\* its status and byte count come from the current request's own calls only,
\* and so do the status label and the size that are recorded; an observer
\* in the pool has its writer cleared.
C15_ObserverResetOnAcquireClearedOnRelease ==
    /\ \A o \in RRWs : rrwPool[o] > 0 => heap[o].writer = NilWriter
    /\ \A g \in Goroutines :
          /\ Holding(g) =>
                LET rrw == heap[loc[g].rrw]
                IN  /\ rrw.writer = Writer(loc[g].rrw, g)
                    /\ pc[g] = "call" =>
                          ~rrw.written /\ rrw.writtenBytes = 0 /\ rrw.status = 0
                    /\ rrw.written <=> hand[g].ops > 0
                    /\ rrw.status = hand[g].first
                    /\ rrw.writtenBytes <= hand[g].sent
          /\ met[g].duration = 1 => met[g].durationProps.Code = hand[g].first
          /\ met[g].size = 1 => met[g].sizeValue <= hand[g].sent

\* One request released an observer carrying the status its handler wrote, and
\* another request has acquired the same observer since: it is reset and
\* bound to the new request's writer.
C15_Witness ==
    \E g, h \in Goroutines :
        /\ g # h
        /\ pc[h] = "defers" /\ hand[h].released = 1 /\ hand[h].first \in HeaderCodes
        /\ pc[g] = "call" /\ Holding(g) /\ loc[g].rrw = loc[h].rrw
        /\ heap[loc[g].rrw] = ResetRRW(ZeroRRW, Writer(loc[g].rrw, g))

\* C16: the observer is transparent. Every call the handler makes on the
\* writer it was given, body write or status write, first or later, reaches
\* the real writer exactly once, as it was made and before the handler's next
\* call, and the handler gets the real writer's result: the real writer has
\* received as many calls and body bytes as the handler sent, and the same
\* first status.
C16_ObserverIsTransparent ==
    \A g \in Goroutines :
        /\ hand[g].transparent
        /\ hand[g].fwdCalls = hand[g].ops
        /\ hand[g].fwdBytes = hand[g].sent
        /\ hand[g].fwdFirst = hand[g].first

\* Through an observer the handler made a status write and then two more
\* calls, a body write among them; all three reached the real writer.
C16_Witness ==
    \E g \in Goroutines :
        /\ Accepted(g) /\ hand[g].via = "rrw"
        /\ hand[g].ops = 3 /\ hand[g].first \in HeaderCodes /\ hand[g].sent > 0
        /\ hand[g].fwdCalls = 3 /\ hand[g].fwdBytes = hand[g].sent
        /\ hand[g].transparent

\* g's ServeHTTP call was accepted and has returned normally.
ReturnedNormally(g) == Accepted(g) /\ pc[g] = "done" /\ outcome[g] = "returned"

\* The status ServeHTTP read from the observer after the handler returned:
\* the one it put in the status label of the duration recording.
RecordedStatus(g) == met[g].durationProps.Code

\* C17 as stated: on every accepted request that returned normally the
\* recorded status is set as the span's HTTP status-code attribute, the
\* value 0 of a handler that never wrote included, and the span status is
\* the classification of that status.
C17_StatusAttributeAlwaysSet ==
    \A g \in Goroutines :
        ReturnedNormally(g) =>
            /\ span[g].statusAttrSets = 1
            /\ span[g].statusAttr = RecordedStatus(g)
            /\ span[g].statusSets = 1
            /\ span[g].status = SpanStatusFromHTTPStatusCode(RecordedStatus(g))

\* C17 amended: the recorded status is set as the span's HTTP status-code
\* attribute when it is above 0; for a handler that never wrote (status 0)
\* no status-code attribute is set; in both cases the span status is set
\* once, to the classification of the recorded status.
C17_StatusAttributeSetWhenPositive ==
    \A g \in Goroutines :
        ReturnedNormally(g) =>
            /\ RecordedStatus(g) = hand[g].first
            /\ RecordedStatus(g) > 0 =>
                  span[g].statusAttrSets = 1 /\ span[g].statusAttr = RecordedStatus(g)
            /\ RecordedStatus(g) = 0 => span[g].statusAttrSets = 0
            /\ span[g].statusSets = 1
            /\ span[g].status = SpanStatusFromHTTPStatusCode(RecordedStatus(g))

\* A handler returned without writing: status 0 was recorded, the span has
\* no status-code attribute, and its status is the classification of 0.
C17_Witness ==
    \E g \in Goroutines :
        /\ ReturnedNormally(g) /\ hand[g].ops = 0
        /\ met[g].duration = 1 /\ RecordedStatus(g) = 0
        /\ span[g].statusAttrSets = 0
        /\ span[g].statusSets = 1 /\ span[g].status = SpanStatusFromHTTPStatusCode(0)

\* C18: the finalize step (post-dispatch route and name when the pattern was
\* not known, status attribute, span status) runs once for an accepted
\* request that returns normally, and before the span is ended; when the
\* handler panics it does not run: the span is ended with no status set, with
\* the name and route it was started with, and neither duration nor size is
\* recorded.
C18_FinalizeOnceOrNotAtAll ==
    \A g \in Goroutines :
        Accepted(g) =>
            /\ span[g].statusSets <= 1 /\ span[g].routeSets <= 1 /\ span[g].nameSets <= 1
            /\ pc[g] \in {"record", "finalize"} => span[g].ended = 0
            /\ (span[g].ended = 1 /\ ~hand[g].panicked) => span[g].statusSets = 1
            /\ ReturnedNormally(g) =>
                  /\ span[g].statusSets = 1 /\ span[g].ended = 1
                  /\ span[g].startRoute = "" => span[g].routeSets = 1 /\ span[g].nameSets = 1
            /\ hand[g].panicked =>
                  /\ span[g].statusSets = 0 /\ span[g].status = "none"
                  /\ span[g].statusAttrSets = 0
                  /\ span[g].routeSets = 0 /\ span[g].nameSets = 0
                  /\ span[g].name = span[g].startName
                  /\ met[g].duration = 0 /\ met[g].size = 0
                  /\ pc[g] = "done" => span[g].ended = 1 /\ outcome[g] = "panicked"

\* A handler panicked after writing, on a request whose route was not known
\* before dispatch: the span was ended as it was started and nothing was
\* recorded.
C18_Witness ==
    \E g \in Goroutines :
        /\ Accepted(g) /\ hand[g].panicked /\ pc[g] = "done" /\ outcome[g] = "panicked"
        /\ hand[g].ops > 0 /\ span[g].startRoute = ""
        /\ span[g].started = 1 /\ span[g].ended = 1
        /\ span[g].statusSets = 0 /\ span[g].nameSets = 0 /\ span[g].routeSets = 0
        /\ met[g].duration = 0 /\ met[g].size = 0

\* The service, identifier and method labels of a label set.
BaseLabels(props) == [Service |-> props.Service, ID |-> props.ID, Method |-> props.Method]

\* The labels fixed before dispatch: the pattern of the supplied table's
\* match, the literal path without one.
PreLabels(g) ==
    [ Service |-> ServerName,
      ID |-> IF TableMatches(g) THEN TablePattern(g) ELSE req[g].path,
      Method |-> req[g].method ]

\* C19: every metric recording of a request carries the service, identifier
\* and method labels fixed before dispatch, also once the route pattern was
\* read from the routing context after dispatch; the in-flight +1 and -1 are
\* recorded under the same label set, with status code 0, though the status
\* label is updated after dispatch for the duration and size recordings; so
\* the in-flight counter is back at zero under every label set once the
\* request has left.
C19_LabelsFixedBeforeDispatch ==
    \A g \in Goroutines :
        Accepted(g) =>
            /\ met[g].up > 0 =>
                  BaseLabels(met[g].upProps) = PreLabels(g) /\ met[g].upProps.Code = 0
            /\ met[g].down > 0 => met[g].up > 0 /\ met[g].downProps = met[g].upProps
            /\ met[g].duration > 0 =>
                  /\ BaseLabels(met[g].durationProps) = PreLabels(g)
                  /\ met[g].durationProps.Code = hand[g].first
            /\ met[g].size > 0 => met[g].sizeProps = met[g].durationProps
            /\ met[g].up > 0 =>
                  CounterAt(inflight, met[g].upProps) = met[g].up - met[g].down
            /\ pc[g] = "done" => inflight = << >>

\* A request with no pre-resolved route returned with status 404: its span
\* got the router's pattern after dispatch, its duration is labelled with the
\* path and 404, its +1 and -1 with the path and 0, and the counter is empty.
C19_Witness ==
    \E g \in Goroutines :
        /\ ReturnedNormally(g) /\ req[g].path = "/users/42"
        /\ span[g].routeSets = 1 /\ span[g].routeAttr = "/users/{id}"
        /\ met[g].up = 1 /\ met[g].down = 1
        /\ met[g].downProps = [Service |-> ServerName, ID |-> "/users/42",
                               Method |-> req[g].method, Code |-> 0]
        /\ met[g].duration = 1 /\ met[g].durationProps.ID = "/users/42"
        /\ met[g].durationProps.Code = 404
        /\ inflight = << >>

====
